---- MODULE Spec2Model ----
(***************************************************************************)
(* Lead intake and qualification service (src/src/server.js).              *)
(*                                                                         *)
(* Strings are sequences of one-character strings, so that toLowerCase,    *)
(* trim and String.prototype.includes are computed character by character. *)
(* The JavaScript values undefined and null are the model values Undefined *)
(* and Null.                                                               *)
(***************************************************************************)
EXTENDS Integers, Sequences, FiniteSets, TLC

Undefined == <<"undefined">>
Null == <<"null">>

IsString(v) == v # Undefined /\ v # Null

\* ---------------------------------------------------------------------
\* String primitives of the JavaScript runtime
\* ---------------------------------------------------------------------

\* the lower-case letter of every upper-case letter
LowerOf ==
  [c \in {"A", "B", "C", "D", "E", "F", "G", "H", "I", "J", "K", "L", "M",
          "N", "O", "P", "Q", "R", "S", "T", "U", "V", "W", "X", "Y", "Z"} |->
     CASE c = "A" -> "a" [] c = "B" -> "b" [] c = "C" -> "c" [] c = "D" -> "d"
       [] c = "E" -> "e" [] c = "F" -> "f" [] c = "G" -> "g" [] c = "H" -> "h"
       [] c = "I" -> "i" [] c = "J" -> "j" [] c = "K" -> "k" [] c = "L" -> "l"
       [] c = "M" -> "m" [] c = "N" -> "n" [] c = "O" -> "o" [] c = "P" -> "p"
       [] c = "Q" -> "q" [] c = "R" -> "r" [] c = "S" -> "s" [] c = "T" -> "t"
       [] c = "U" -> "u" [] c = "V" -> "v" [] c = "W" -> "w" [] c = "X" -> "x"
       [] c = "Y" -> "y" [] c = "Z" -> "z"]

\* the upper-case letter of every lower-case letter
UpperOf ==
  [c \in {"a", "b", "c", "d", "e", "f", "g", "h", "i", "j", "k", "l", "m",
          "n", "o", "p", "q", "r", "s", "t", "u", "v", "w", "x", "y", "z"} |->
     CASE c = "a" -> "A" [] c = "b" -> "B" [] c = "c" -> "C" [] c = "d" -> "D"
       [] c = "e" -> "E" [] c = "f" -> "F" [] c = "g" -> "G" [] c = "h" -> "H"
       [] c = "i" -> "I" [] c = "j" -> "J" [] c = "k" -> "K" [] c = "l" -> "L"
       [] c = "m" -> "M" [] c = "n" -> "N" [] c = "o" -> "O" [] c = "p" -> "P"
       [] c = "q" -> "Q" [] c = "r" -> "R" [] c = "s" -> "S" [] c = "t" -> "T"
       [] c = "u" -> "U" [] c = "v" -> "V" [] c = "w" -> "W" [] c = "x" -> "X"
       [] c = "y" -> "Y" [] c = "z" -> "Z"]

LowerChar(c) == IF c \in DOMAIN LowerOf THEN LowerOf[c] ELSE c

UpperChar(c) == IF c \in DOMAIN UpperOf THEN UpperOf[c] ELSE c

\* String.prototype.toLowerCase
toLowerCase(s) == [i \in 1..Len(s) |-> LowerChar(s[i])]

\* String.prototype.toUpperCase
toUpperCase(s) == [i \in 1..Len(s) |-> UpperChar(s[i])]

\* mutant of includes: the window is clamped to the end of s, so that a
\* proper prefix of k at the end of s counts as an occurrence
includes_Clamped(s, k) ==
  \E i \in 1..(Len(s) + 1) :
    LET n == IF Len(k) < Len(s) - i + 1 THEN Len(k) ELSE Len(s) - i + 1
    IN  SubSeq(s, i, i + n - 1) = SubSeq(k, 1, n)

\* String.prototype.includes: k occurs in s as a contiguous substring
includes(s, k) ==
  \E i \in 1..(Len(s) - Len(k) + 1) : SubSeq(s, i, i + Len(k) - 1) = k

WhiteSpace == {" "}

\* String.prototype.trim
trim(s) ==
  IF \A i \in 1..Len(s) : s[i] \in WhiteSpace
    THEN << >>
    ELSE LET first == CHOOSE i \in 1..Len(s) :
                        /\ s[i] \notin WhiteSpace
                        /\ \A j \in 1..(i - 1) : s[j] \in WhiteSpace
             last  == CHOOSE i \in 1..Len(s) :
                        /\ s[i] \notin WhiteSpace
                        /\ \A j \in (i + 1)..Len(s) : s[j] \in WhiteSpace
         IN  SubSeq(s, first, last)

\* String(v) for the values of the model
String(v) ==
  IF v = Undefined THEN <<"u","n","d","e","f","i","n","e","d">>
  ELSE IF v = Null THEN <<"n","u","l","l">>
  ELSE v

\* v || "" : undefined, null and the empty string are falsy
OrEmpty(v) == IF v = Undefined \/ v = Null \/ v = << >> THEN << >> ELSE v

\* v || null
OrNull(v) == IF v = Undefined \/ v = Null \/ v = << >> THEN Null ELSE v

\* ---------------------------------------------------------------------
\* classifyLead (server.js 141-212)
\* ---------------------------------------------------------------------

highSignals ==
  << [key |-> <<"a","s","a","p">>, points |-> 3, reason |-> "Urgent timeline"],
     [key |-> <<"n","e","x","t"," ","m","o","n","t","h">>, points |-> 3, reason |-> "Near-term intent"],
     [key |-> <<"s","t","a","r","t","i","n","g">>, points |-> 2, reason |-> "Start date mentioned"],
     [key |-> <<"w","i","t","h","i","n">>, points |-> 2, reason |-> "Defined timeline window"],
     [key |-> <<"b","y">>, points |-> 1, reason |-> "Deadline mentioned"],
     [key |-> <<"p","r","e","m","i","u","m">>, points |-> 2, reason |-> "Premium service language"],
     [key |-> <<"p","r","o","p","o","s","a","l">>, points |-> 2, reason |-> "Requesting a proposal"],
     [key |-> <<"q","u","o","t","e">>, points |-> 2, reason |-> "Requesting a quote"],
     [key |-> <<"b","u","d","g","e","t">>, points |-> 2, reason |-> "Budget mentioned"],
     [key |-> <<"s","c","o","p","e">>, points |-> 2, reason |-> "Scope mentioned"],
     [key |-> <<"r","e","q","u","i","r","e","m","e","n","t","s">>, points |-> 2, reason |-> "Requirements mentioned"],
     [key |-> <<"d","e","l","i","v","e","r","a","b","l","e","s">>, points |-> 2, reason |-> "Deliverables mentioned"],
     [key |-> <<"c","o","n","t","r","a","c","t">>, points |-> 2, reason |-> "Contract language"],
     [key |-> <<"r","e","t","a","i","n","e","r">>, points |-> 2, reason |-> "Retainer language"],
     [key |-> <<"c","a","l","l">>, points |-> 1, reason |-> "Wants to discuss next steps"],
     [key |-> <<"m","e","e","t","i","n","g">>, points |-> 1, reason |-> "Wants to discuss next steps"] >>

lowSignals ==
  << [key |-> <<"j","u","s","t"," ","c","u","r","i","o","u","s">>, points |-> 4, reason |-> "Low intent language"],
     [key |-> <<"m","a","y","b","e"," ","l","a","t","e","r">>, points |-> 3, reason |-> "Uncertain timeline"],
     [key |-> <<"n","o","t"," ","s","u","r","e">>, points |-> 3, reason |-> "Uncertain intent"],
     [key |-> <<"w","h","e","n","e","v","e","r">>, points |-> 2, reason |-> "No urgency"],
     [key |-> <<"s","o","m","e","d","a","y">>, points |-> 2, reason |-> "No timeline"],
     [key |-> <<"s","o","m","e","o","n","e"," ","n","i","c","e">>, points |-> 2, reason |-> "Vague request language"],
     [key |-> <<"a","n","y","t","h","i","n","g">>, points |-> 2, reason |-> "Vague request language"],
     [key |-> <<"f","r","e","e">>, points |-> 4, reason |-> "Low budget / free request"],
     [key |-> <<"c","h","e","a","p">>, points |-> 3, reason |-> "Low investment signal"],
     [key |-> <<"u","r","g","e","n","t"," ","h","e","l","p"," ","p","l","s">>, points |-> 3, reason |-> "Low-signal / spammy phrasing"] >>

\* mutant of intentSignals: scope, contract and retainer are not intent phrases
intentSignals_Curated ==
  << <<"a","s","a","p">>,
     <<"n","e","x","t"," ","m","o","n","t","h">>,
     <<"s","t","a","r","t","i","n","g">>,
     <<"w","i","t","h","i","n">>,
     <<"b","y">>,
     <<"p","r","o","p","o","s","a","l">>,
     <<"q","u","o","t","e">>,
     <<"b","u","d","g","e","t">>,
     <<"r","e","q","u","i","r","e","m","e","n","t","s">>,
     <<"d","e","l","i","v","e","r","a","b","l","e","s">>,
     <<"c","a","l","l">>,
     <<"m","e","e","t","i","n","g">> >>

\* mutant of intentSignals: every high-signal key is an intent phrase
intentSignals_AllHighKeys ==
  [i \in 1..Len(highSignals) |-> highSignals[i].key]

intentSignals ==
  << <<"a","s","a","p">>,
     <<"n","e","x","t"," ","m","o","n","t","h">>,
     <<"s","t","a","r","t","i","n","g">>,
     <<"w","i","t","h","i","n">>,
     <<"b","y">>,
     <<"p","r","o","p","o","s","a","l">>,
     <<"q","u","o","t","e">>,
     <<"b","u","d","g","e","t">>,
     <<"s","c","o","p","e">>,
     <<"r","e","q","u","i","r","e","m","e","n","t","s">>,
     <<"d","e","l","i","v","e","r","a","b","l","e","s">>,
     <<"c","o","n","t","r","a","c","t">>,
     <<"r","e","t","a","i","n","e","r">>,
     <<"c","a","l","l">>,
     <<"m","e","e","t","i","n","g">> >>

hardNegatives ==
  << <<"h","o","o","k","u","p","s">>,
     <<"f","r","e","e"," ","d","a","t","i","n","g"," ","a","p","p">> >>

Threshold == 3

RECURSIVE Matched_PerOccurrence(_, _)
\* mutant of Matched: a rule is listed once per occurrence of its key
Matched_PerOccurrence(signals, message) ==
  IF signals = << >> THEN << >>
  ELSE LET k == Head(signals).key
           n == Cardinality({ i \in 1..(Len(message) - Len(k) + 1) :
                               SubSeq(message, i, i + Len(k) - 1) = k })
       IN  [j \in 1..n |-> Head(signals)] \o
             Matched_PerOccurrence(Tail(signals), message)

\* signals.filter(s => message.includes(s.key))
Matched(signals, message) ==
  SelectSeq(signals, LAMBDA s : includes(message, s.key))

RECURSIVE SumPoints(_)
\* matched.reduce((sum, s) => sum + s.points, 0)
SumPoints(matched) ==
  IF matched = << >> THEN 0
  ELSE Head(matched).points + SumPoints(Tail(matched))

\* phrases.some(k => message.includes(k))
SomeIncluded(phrases, message) ==
  \E i \in 1..Len(phrases) : includes(message, phrases[i])

\* `${s.reason} (+${s.points})` and `${s.reason} (-${s.points})`
RenderReasons(matched, sign) ==
  [i \in 1..Len(matched) |-> <<matched[i].reason, sign, matched[i].points>>]

\* mutant of LeadLabel: the hard-negative veto is missing
LeadLabel_NoVeto(hasHardNegative, hasIntentSignal, netScore) ==
  IF hasIntentSignal /\ netScore >= Threshold THEN "HIGH" ELSE "LOW"

LeadLabel(hasHardNegative, hasIntentSignal, netScore) ==
  IF ~hasHardNegative /\ hasIntentSignal /\ netScore >= Threshold
    THEN "HIGH"
    ELSE "LOW"

\* the message parameter with its default value and the normalisation
NormalizeMessage(messageRaw) ==
  toLowerCase(String(IF messageRaw = Undefined THEN << >> ELSE messageRaw))

\* the local variables of one execution of classifyLead
ClassifyLocals(messageRaw) ==
  LET message == NormalizeMessage(messageRaw)
  IN  [ hasIntentSignal |-> SomeIncluded(intentSignals, message),
        hasHardNegative |-> SomeIncluded(hardNegatives, message) ]

classifyLead(messageRaw) ==
  LET message     == NormalizeMessage(messageRaw)
      matchedHigh == Matched(highSignals, message)
      matchedLow  == Matched(lowSignals, message)
      highScore   == SumPoints(matchedHigh)
      lowScore    == SumPoints(matchedLow)
      locals      == ClassifyLocals(messageRaw)
      netScore    == highScore - lowScore
  IN  [ label   |-> LeadLabel(locals.hasHardNegative, locals.hasIntentSignal, netScore),
        scores  |-> [highScore |-> highScore, lowScore |-> lowScore, netScore |-> netScore],
        reasons |-> [high |-> RenderReasons(matchedHigh, "+"),
                     low  |-> RenderReasons(matchedLow, "-")] ]

\* ---------------------------------------------------------------------
\* Bounds of the model
\* ---------------------------------------------------------------------

MaxFrags == 3
MaxRand == 1

\* the requests handled by the server process, possibly concurrently
Reqs == {1, 2}

VARIABLES
  cInput,        \* harness: the argument passed to classifyLead
  cFrags,        \* harness: number of fragments cInput was composed of
  cResult,       \* harness: the value classifyLead returned for cInput
  cLocals,       \* harness: hasIntentSignal / hasHardNegative of that call
  req,           \* req[r]: req.body of request r
  pc,            \* pc[r]: position of the handler of request r
  loc,           \* loc[r]: the local variables of the handler of request r
  res,           \* res[r]: the response sent for request r
  io,            \* io[r]: outcome of each boundary call made for request r
  classifyCalls, \* classifyCalls[r]: number of classifyLead calls for r
  dataDirExists, \* the directory data/ exists
  leadsFile,     \* the lines of data/leads.jsonl
  mailCalls,     \* mailer.sendMail calls made so far
  notionCalls,   \* notion.pages.create calls made so far
  slackCalls,    \* slack.chat.postMessage calls made so far
  clock,         \* the value of the last reading of the system time
  notionToken    \* process.env.NOTION_TOKEN is set

cvars == <<cInput, cFrags, cResult, cLocals>>
hvars == <<req, pc, loc, res, io, classifyCalls, dataDirExists, leadsFile,
           mailCalls, notionCalls, slackCalls, clock, notionToken>>
vars == <<cInput, cFrags, cResult, cLocals, req, pc, loc, res, io,
          classifyCalls, dataDirExists, leadsFile, mailCalls, notionCalls,
          slackCalls, clock, notionToken>>

\* ---------------------------------------------------------------------
\* Helpers of the POST /lead handler
\* ---------------------------------------------------------------------

\* mutant of isLikelyEmail: the minimum length is 5 instead of 6
isLikelyEmail_MinFive(value) ==
  LET v == trim(String(IF value = Undefined THEN << >> ELSE value))
  IN  includes(v, <<"@">>) /\ includes(v, <<".">>) /\ Len(v) >= 5

\* isLikelyEmail (server.js 97-100)
isLikelyEmail(value) ==
  LET v == trim(String(IF value = Undefined THEN << >> ELSE value))
  IN  includes(v, <<"@">>) /\ includes(v, <<".">>) /\ Len(v) >= 6

\* safeId (server.js 214-216): time component and random component
safeId(now, rnd) == <<now, rnd>>

\* mutant of appendLeadToDisk: the file is written, not appended to
appendLeadToDisk_Overwrite(file, leadObj) == <<leadObj>>

\* appendLeadToDisk (server.js 218-225): fs.appendFileSync adds one line
appendLeadToDisk(file, leadObj) == Append(file, leadObj)

SummaryLen == 140

\* cleanMessage.slice(0, 140) + (cleanMessage.length > 140 ? "…" : "")
Summary(cleanMessage) ==
  IF Len(cleanMessage) > SummaryLen
    THEN SubSeq(cleanMessage, 1, SummaryLen) \o <<"...">>
    ELSE cleanMessage

NA == <<"N","/","A">>

OrNA(v) == IF v = << >> THEN NA ELSE v

NoKeywordMatch == << <<"No keyword match", "", 0>> >>

\* mutant of SlackText: the text reports the initial e-mail status
SlackText_StaleEmailStatus(r, L) ==
  [ req          |-> r,
    mark         |-> IF L.label = "HIGH" THEN "green" ELSE "red",
    label        |-> L.label,
    scores       |-> L.scores,
    autoResponse |-> "not_sent",
    emailError   |-> "",
    notion       |-> L.notionStatus,
    notionPageId |-> L.notionPageId,
    reasons      |-> LET rs == IF L.label = "HIGH" THEN L.reasons.high
                                                   ELSE L.reasons.low
                     IN  IF rs = << >> THEN NoKeywordMatch ELSE rs,
    email        |-> OrNA(L.cleanEmail),
    phone        |-> OrNA(L.cleanPhone),
    whatsapp     |-> OrNA(L.cleanWhatsapp),
    summary      |-> L.summary,
    message      |-> L.cleanMessage ]

\* mutant of SlackText: the Notion status is derived from the page id
SlackText_NotionFromPageId(r, L) ==
  [ req          |-> r,
    mark         |-> IF L.label = "HIGH" THEN "green" ELSE "red",
    label        |-> L.label,
    scores       |-> L.scores,
    autoResponse |-> L.emailStatus,
    emailError   |-> L.emailError,
    notion       |-> IF L.notionPageId = "" THEN "skipped" ELSE "ok",
    notionPageId |-> L.notionPageId,
    reasons      |-> LET rs == IF L.label = "HIGH" THEN L.reasons.high
                                                   ELSE L.reasons.low
                     IN  IF rs = << >> THEN NoKeywordMatch ELSE rs,
    email        |-> OrNA(L.cleanEmail),
    phone        |-> OrNA(L.cleanPhone),
    whatsapp     |-> OrNA(L.cleanWhatsapp),
    summary      |-> L.summary,
    message      |-> L.cleanMessage ]

\* the text passed to slack.chat.postMessage (server.js 367-377)
SlackText(r, L) ==
  [ req          |-> r,
    mark         |-> IF L.label = "HIGH" THEN "green" ELSE "red",
    label        |-> L.label,
    scores       |-> L.scores,
    autoResponse |-> L.emailStatus,
    emailError   |-> L.emailError,
    notion       |-> L.notionStatus,
    notionPageId |-> L.notionPageId,
    reasons      |-> LET rs == IF L.label = "HIGH" THEN L.reasons.high
                                                   ELSE L.reasons.low
                     IN  IF rs = << >> THEN NoKeywordMatch ELSE rs,
    email        |-> OrNA(L.cleanEmail),
    phone        |-> OrNA(L.cleanPhone),
    whatsapp     |-> OrNA(L.cleanWhatsapp),
    summary      |-> L.summary,
    message      |-> L.cleanMessage ]

\* the object passed to appendLeadToDisk (server.js 320-331)
LeadRecord(r, L) ==
  [ req             |-> r,
    lead_id         |-> L.lead_id,
    created_at      |-> L.created_at,
    label           |-> L.label,
    scores          |-> L.scores,
    reasons         |-> L.reasons,
    email           |-> OrNull(L.cleanEmail),
    phone           |-> OrNull(L.cleanPhone),
    whatsapp        |-> OrNull(L.cleanWhatsapp),
    company_website |-> Null,
    message         |-> L.cleanMessage ]

\* the page properties passed to notion.pages.create (server.js 244-270)
NotionPage(r, L) ==
  [ req        |-> r,
    lead_id    |-> L.lead_id,
    created_at |-> L.created_at,
    label      |-> L.label,
    scores     |-> L.scores,
    email      |-> OrNull(L.cleanEmail),
    phone      |-> OrNull(L.cleanPhone),
    whatsapp   |-> OrNull(L.cleanWhatsapp),
    message    |-> L.cleanMessage ]

NoScores == [highScore |-> 0, lowScore |-> 0, netScore |-> 0]
NoReasons == [high |-> << >>, low |-> << >>]

\* the handler's locals before the handler has run
NoLocals ==
  [ cleanMessage |-> << >>, cleanEmail |-> << >>, cleanPhone |-> << >>,
    cleanWhatsapp |-> << >>, label |-> "", scores |-> NoScores,
    reasons |-> NoReasons, emailStatus |-> "", emailError |-> "",
    summary |-> << >>, lead_id |-> << >>, created_at |-> -1,
    notionStatus |-> "", notionPageId |-> "" ]

NoBody ==
  [ email |-> Undefined, phone |-> Undefined, whatsapp |-> Undefined,
    message |-> Undefined, company_website |-> Undefined ]

NoIo == [email |-> "none", disk |-> "none", notion |-> "none", slack |-> "none"]

\* responses: status 0 means that no response has been sent
NoResponse ==
  [ status |-> 0, json |-> FALSE, ok |-> FALSE, ignored |-> FALSE,
    error |-> "", label |-> "", lead_id |-> << >>, notionStatus |-> "",
    notionPageId |-> "" ]

\* res.json({ ok: true, ignored: true })
IgnoredResponse ==
  [NoResponse EXCEPT !.status = 200, !.json = TRUE, !.ok = TRUE, !.ignored = TRUE]

\* res.status(400).json({ ok: false, error })
ClientError(text) ==
  [NoResponse EXCEPT !.status = 400, !.json = TRUE, !.error = text]

\* mutant of OkResponse: the identifier is read back from the last line of
\* the lead log
OkResponse_LastLead(L) ==
  [NoResponse EXCEPT !.status = 200, !.json = TRUE, !.ok = TRUE,
                     !.label = L.label,
                     !.lead_id = leadsFile[Len(leadsFile)].lead_id,
                     !.notionStatus = L.notionStatus,
                     !.notionPageId = L.notionPageId]

\* res.json({ ok: true, label, lead_id, notionStatus, notionPageId })
OkResponse(L) ==
  [NoResponse EXCEPT !.status = 200, !.json = TRUE, !.ok = TRUE,
                     !.label = L.label, !.lead_id = L.lead_id,
                     !.notionStatus = L.notionStatus,
                     !.notionPageId = L.notionPageId]

\* mutant of ServerError: the status is not set
ServerError_NoStatus(text) ==
  [NoResponse EXCEPT !.status = 200, !.json = TRUE, !.error = text]

\* res.status(500).json({ ok: false, error: ... })
ServerError(text) ==
  [NoResponse EXCEPT !.status = 500, !.json = TRUE, !.error = text]

\* What the framework does with the rejected promise of an async handler:
\* Express 4 ignores it (no response is ever sent), Express 5 passes it to
\* the default error handler, which answers 500 with a non-JSON body.
ExpressOnRejection ==
  { NoResponse, [NoResponse EXCEPT !.status = 500, !.error = "Internal Server Error"] }

\* ---------------------------------------------------------------------
\* Inputs
\* ---------------------------------------------------------------------

asapMessage == <<" ","a","s","a","p">>
hookupsMessage == <<"h","o","o","k","u","p","s"," ","a","s","a","p">>
cheapMessage == <<"c","h","e","a","p">>
likelyEmail == <<"a","@","b",".","c","o"," ">>
shortEmail == <<"a","@","b",".","c">>

\* submissions with the honeypot field filled in
HoneypotBodies ==
  [ email : {Undefined, likelyEmail}, phone : {Undefined},
    whatsapp : {Undefined}, message : {Undefined, asapMessage},
    company_website : {<<" ","x"," ">>} ]

\* submissions without a message
NoMessageBodies ==
  [ email : {Undefined, likelyEmail}, phone : {Undefined},
    whatsapp : {Undefined}, message : {Undefined, Null, << >>, <<" ">>},
    company_website : {Undefined} ]

\* submissions without a contact method
NoContactBodies ==
  [ email : {Undefined, <<" ">>}, phone : {Undefined, << >>},
    whatsapp : {Null}, message : {asapMessage, cheapMessage},
    company_website : {Undefined} ]

\* high-intent submissions with an e-mail address
HighEmailBodies ==
  [ email : {likelyEmail, shortEmail}, phone : {Undefined},
    whatsapp : {Undefined}, message : {asapMessage},
    company_website : {Undefined} ]

\* a submission with a hard-negative phrase and an e-mail address
VetoedBodies ==
  [ email : {likelyEmail}, phone : {Undefined},
    whatsapp : {Undefined}, message : {hookupsMessage},
    company_website : {<<" ">>} ]

\* a low-intent submission with a phone and a WhatsApp number
PhoneBodies ==
  [ email : {Undefined}, phone : {<<"5">>},
    whatsapp : {<<"9">>}, message : {cheapMessage},
    company_website : {Undefined} ]

ReqBodies ==
  HoneypotBodies \cup NoMessageBodies \cup NoContactBodies
    \cup HighEmailBodies \cup VetoedBodies \cup PhoneBodies

\* err?.message || "unknown email error"
EmailErrors == { "smtp error", "unknown email error" }

\* ---------------------------------------------------------------------
\* POST /lead (server.js 276-385), one action per stretch of code that
\* runs between two awaits
\* ---------------------------------------------------------------------

Init ==
  /\ cInput = Undefined
  /\ cFrags = 0
  /\ cResult = classifyLead(Undefined)
  /\ cLocals = ClassifyLocals(Undefined)
  /\ req = [r \in Reqs |-> NoBody]
  /\ pc = [r \in Reqs |-> "idle"]
  /\ loc = [r \in Reqs |-> NoLocals]
  /\ res = [r \in Reqs |-> NoResponse]
  /\ io = [r \in Reqs |-> NoIo]
  /\ classifyCalls = [r \in Reqs |-> 0]
  /\ dataDirExists = FALSE
  /\ leadsFile = << >>
  /\ mailCalls = << >>
  /\ notionCalls = << >>
  /\ slackCalls = << >>
  /\ clock = 0
  /\ notionToken \in BOOLEAN

\* server.js 364-378: the call of slack.chat.postMessage, up to its await
PostToSlack(r, L, ior) ==
  /\ slackCalls' = Append(slackCalls, SlackText(r, L))
  /\ loc' = [loc EXCEPT ![r] = L]
  /\ io' = [io EXCEPT ![r] = [ior EXCEPT !.slack = "pending"]]
  /\ pc' = [pc EXCEPT ![r] = "await_slack"]
  /\ UNCHANGED res

\* server.js 314-362: from the summary to the next await. The system time
\* is read (it has advanced since the last reading, or it has not), the
\* directory is created when missing, the record is appended, and then
\* the Notion page is requested (HIGH) or the Slack message is posted
\* (LOW). A throw of mkdirSync or appendFileSync rejects the handler's
\* promise.
SaveAndContinue(r, L0, ior0) ==
  \E now \in {clock, clock + 1}, rnd \in 1..MaxRand,
     disk \in {"ok", "mkdir_throws", "append_throws"} :
    LET L == [L0 EXCEPT !.summary = Summary(L0.cleanMessage),
                        !.lead_id = safeId(now, rnd),
                        !.created_at = now]
    IN  /\ disk = "mkdir_throws" => ~dataDirExists
        /\ dataDirExists' = (dataDirExists \/ disk # "mkdir_throws")
        /\ clock' = now
        /\ UNCHANGED <<mailCalls, notionToken>>
        /\ IF disk # "ok"
             THEN /\ pc' = [pc EXCEPT ![r] = "aborted"]
                  /\ loc' = [loc EXCEPT ![r] = L]
                  /\ io' = [io EXCEPT ![r] = [ior0 EXCEPT !.disk = "throw"]]
                  /\ \E e \in ExpressOnRejection : res' = [res EXCEPT ![r] = e]
                  /\ UNCHANGED <<leadsFile, notionCalls, slackCalls>>
             ELSE /\ leadsFile' = appendLeadToDisk(leadsFile, LeadRecord(r, L))
                  /\ LET ior == [ior0 EXCEPT !.disk = "ok"]
                         L1  == [L EXCEPT !.notionStatus = "skipped"]
                     IN  IF L.label = "HIGH"
                           THEN /\ pc' = [pc EXCEPT ![r] = "await_notion"]
                                /\ loc' = [loc EXCEPT ![r] = L1]
                                /\ res' = res
                                /\ UNCHANGED slackCalls
                                /\ IF notionToken
                                     THEN /\ notionCalls' = Append(notionCalls, NotionPage(r, L1))
                                          /\ io' = [io EXCEPT ![r] = [ior EXCEPT !.notion = "pending"]]
                                     ELSE /\ notionCalls' = notionCalls
                                          /\ io' = [io EXCEPT ![r] = [ior EXCEPT !.notion = "skipped"]]
                           ELSE /\ PostToSlack(r, L1, ior)
                                /\ UNCHANGED notionCalls

\* mutant of isHoneypot: a one-character value passes
isHoneypot_OffByOne(company_website) ==
  Len(trim(String(OrEmpty(company_website)))) > 1

\* String(company_website || "").trim().length > 0 (server.js 280)
isHoneypot(company_website) ==
  Len(trim(String(OrEmpty(company_website)))) > 0

\* mutant of cleanField: the value is not trimmed
cleanField_NoTrim(field) == String(OrEmpty(field))

\* String(field || "").trim() (server.js 284-287)
cleanField(field) == trim(String(OrEmpty(field)))

\* server.js 276-312: from the arrival of the request to the first await
\* or to the response
HandleLead(r, body) ==
  /\ pc[r] = "idle"
  /\ req' = [req EXCEPT ![r] = body]
  /\ UNCHANGED cvars
  /\ LET cleanMessage  == cleanField(body.message)
         cleanEmail    == cleanField(body.email)
         cleanPhone    == cleanField(body.phone)
         cleanWhatsapp == cleanField(body.whatsapp)
         Reply(response) ==
           /\ res' = [res EXCEPT ![r] = response]
           /\ pc' = [pc EXCEPT ![r] = "done"]
           /\ UNCHANGED <<loc, io, classifyCalls, dataDirExists, leadsFile,
                          mailCalls, notionCalls, slackCalls, clock, notionToken>>
     IN  IF isHoneypot(body.company_website)
           THEN Reply(IgnoredResponse)
         ELSE IF cleanMessage = << >>
           THEN Reply(ClientError("Message is required."))
         ELSE IF cleanEmail = << >> /\ cleanPhone = << >> /\ cleanWhatsapp = << >>
           THEN Reply(ClientError("Provide at least one contact method: Email, Phone, or WhatsApp."))
         ELSE
           LET cls == classifyLead(cleanMessage)
               L   == [NoLocals EXCEPT !.cleanMessage = cleanMessage,
                                       !.cleanEmail = cleanEmail,
                                       !.cleanPhone = cleanPhone,
                                       !.cleanWhatsapp = cleanWhatsapp,
                                       !.label = cls.label,
                                       !.scores = cls.scores,
                                       !.reasons = cls.reasons,
                                       !.emailStatus = "not_sent"]
           IN  /\ classifyCalls' = [classifyCalls EXCEPT ![r] = @ + 1]
               /\ IF L.label = "HIGH" /\ isLikelyEmail(cleanEmail)
                    THEN /\ mailCalls' = Append(mailCalls, [req |-> r, to |-> cleanEmail])
                         /\ loc' = [loc EXCEPT ![r] = L]
                         /\ io' = [io EXCEPT ![r].email = "pending"]
                         /\ pc' = [pc EXCEPT ![r] = "await_email"]
                         /\ UNCHANGED <<res, dataDirExists, leadsFile, notionCalls,
                                        slackCalls, clock, notionToken>>
                    ELSE SaveAndContinue(r, L, io[r])

\* server.js 306-331: sendHighLeadAutoResponse settles, the handler resumes
EmailSettles(r) ==
  /\ pc[r] = "await_email"
  /\ UNCHANGED <<cvars, req, classifyCalls>>
  /\ \/ SaveAndContinue(r, [loc[r] EXCEPT !.emailStatus = "sent"],
                        [io[r] EXCEPT !.email = "ok"])
     \/ \E msg \in EmailErrors :
          SaveAndContinue(r, [loc[r] EXCEPT !.emailStatus = "failed", !.emailError = msg],
                          [io[r] EXCEPT !.email = "throw"])

NotionPageId == "page-id"

\* server.js 339-378: createNotionLeadPage settles, the handler resumes and
\* posts to Slack
NotionSettles(r) ==
  /\ pc[r] = "await_notion"
  /\ UNCHANGED <<cvars, req, classifyCalls, dataDirExists, leadsFile, mailCalls,
                 notionCalls, clock, notionToken>>
  /\ IF io[r].notion = "skipped"
       THEN PostToSlack(r, [loc[r] EXCEPT !.notionStatus = "skipped"], io[r])
       ELSE \/ PostToSlack(r, [loc[r] EXCEPT !.notionStatus = "ok",
                                             !.notionPageId = NotionPageId],
                           [io[r] EXCEPT !.notion = "ok"])
            \/ PostToSlack(r, [loc[r] EXCEPT !.notionStatus = "failed"],
                           [io[r] EXCEPT !.notion = "throw"])

\* server.js 380-384: slack.chat.postMessage settles, the response is sent
SlackSettles(r) ==
  /\ pc[r] = "await_slack"
  /\ pc' = [pc EXCEPT ![r] = "done"]
  /\ UNCHANGED <<cvars, req, loc, classifyCalls, dataDirExists, leadsFile,
                 mailCalls, notionCalls, slackCalls, clock, notionToken>>
  /\ \/ /\ io' = [io EXCEPT ![r].slack = "ok"]
        /\ res' = [res EXCEPT ![r] = OkResponse(loc[r])]
     \/ /\ io' = [io EXCEPT ![r].slack = "throw"]
        /\ res' = [res EXCEPT ![r] = ServerError("slack error")]

Next ==
  \/ \E r \in Reqs, body \in ReqBodies : HandleLead(r, body)
  \/ \E r \in Reqs : EmailSettles(r)
  \/ \E r \in Reqs : NotionSettles(r)
  \/ \E r \in Reqs : SlackSettles(r)

Spec == Init /\ [][Next]_vars

\* ---------------------------------------------------------------------
\* Harness for classifyLead: the argument is composed of fragments, its
\* letter case is changed, phrases already present are repeated, and
\* classifyLead is applied to every argument so obtained
\* ---------------------------------------------------------------------

Fragments ==
  { <<"a","s","a","p">>, <<"b","y">>, <<"s","t","a","n","d">>,
    <<"p","r","e","m","i","u","m">>, <<"s","c","o","p","e">>,
    <<"c","o","n","t","r","a","c","t">>, <<"r","e","t","a","i","n","e","r">>,
    <<"c","h","e","a","p">>, <<"h","o","o","k","u","p","s">>,
    <<"f","r","e","e"," ","d","a","t","i","n","g"," ","a","p","p">>,
    <<" ">> }

\* the keys of both signal tables
SignalKeys ==
  { highSignals[i].key : i \in 1..Len(highSignals) } \cup
  { lowSignals[i].key : i \in 1..Len(lowSignals) }

Capitalize(s) ==
  [i \in 1..Len(s) |-> IF i = 1 \/ s[i - 1] = " " THEN UpperChar(s[i]) ELSE s[i]]

Call(arg, n) ==
  /\ cInput' = arg
  /\ cFrags' = n
  /\ cResult' = classifyLead(arg)
  /\ cLocals' = ClassifyLocals(arg)
  /\ UNCHANGED hvars

InitClassify ==
  /\ cInput = << >>
  /\ cFrags = 0
  /\ cResult = classifyLead(cInput)
  /\ cLocals = ClassifyLocals(cInput)
  /\ req = [r \in Reqs |-> NoBody]
  /\ pc = [r \in Reqs |-> "idle"]
  /\ loc = [r \in Reqs |-> NoLocals]
  /\ res = [r \in Reqs |-> NoResponse]
  /\ io = [r \in Reqs |-> NoIo]
  /\ classifyCalls = [r \in Reqs |-> 0]
  /\ dataDirExists = FALSE
  /\ leadsFile = << >>
  /\ mailCalls = << >>
  /\ notionCalls = << >>
  /\ slackCalls = << >>
  /\ clock = 0
  /\ notionToken = TRUE

\* classifyLead is called without an argument or with null
CallWith(v) ==
  /\ cInput = << >>
  /\ Call(v, cFrags)

\* a fragment is appended to the message
Compose(f) ==
  /\ IsString(cInput)
  /\ cFrags < MaxFrags
  /\ Call(cInput \o f, cFrags + 1)

\* the letter case of the message is changed
Recase(kind) ==
  /\ IsString(cInput)
  /\ cFrags < MaxFrags
  /\ LET m == CASE kind = "upper" -> toUpperCase(cInput)
                [] kind = "lower" -> toLowerCase(cInput)
                [] kind = "capital" -> Capitalize(cInput)
     IN  /\ m # cInput
         /\ Call(m, cFrags + 1)

\* a signal phrase that the message already contains is written once more
Repeat(k, sep) ==
  /\ IsString(cInput)
  /\ cFrags < MaxFrags
  /\ includes(toLowerCase(cInput), k)
  /\ Call(cInput \o sep \o k, cFrags + 1)

NextClassify ==
  \/ \E v \in {Undefined, Null} : CallWith(v)
  \/ \E f \in Fragments : Compose(f)
  \/ \E kind \in {"upper", "lower", "capital"} : Recase(kind)
  \/ \E k \in SignalKeys, sep \in {<< >>, <<" ">>} : Repeat(k, sep)

SpecClassify == InitClassify /\ [][NextClassify]_vars

\* ---------------------------------------------------------------------
\* Properties of classifyLead, checked under SpecClassify
\* ---------------------------------------------------------------------

\* k occurs in s: at some offset every character of k equals the
\* character of s at that offset
Occurs(k, s) ==
  \E d \in 0..(Len(s) - Len(k)) : \A j \in 1..Len(k) : s[d + j] = k[j]

\* the lower-cased text that classifyLead searches for the argument cInput
Lowered ==
  IF cInput = Undefined THEN << >>
  ELSE IF cInput = Null THEN <<"n","u","l","l">>
  ELSE toLowerCase(cInput)

OccursAny(phrases, s) == \E i \in 1..Len(phrases) : Occurs(phrases[i], s)

\* the indexes of the rules of a table whose key occurs in s
Hits(signals, s) == { i \in 1..Len(signals) : Occurs(signals[i].key, s) }

RECURSIVE PointsOf(_, _)
\* every rule of the index set I counted once
PointsOf(signals, I) ==
  IF I = {} THEN 0
  ELSE LET i == CHOOSE j \in I : TRUE
       IN  signals[i].points + PointsOf(signals, I \ {i})

RECURSIVE ReasonsFrom(_, _, _, _)
\* the reasons of the rules whose key occurs in s, in declaration order
ReasonsFrom(signals, s, sign, i) ==
  IF i > Len(signals) THEN << >>
  ELSE (IF Occurs(signals[i].key, s)
          THEN << <<signals[i].reason, sign, signals[i].points>> >>
          ELSE << >>) \o ReasonsFrom(signals, s, sign, i + 1)

\* C1: the label is HIGH if and only if the lower-cased message contains no
\* hard-negative phrase, contains at least one intent phrase and
\* netScore = highScore - lowScore is at least 3; otherwise it is LOW. A
\* message with a hard-negative phrase is LOW however high its score.
C1_LabelIffGate ==
  LET net == cResult.scores.highScore - cResult.scores.lowScore
  IN  /\ cResult.scores.netScore = net
      /\ cResult.label \in {"HIGH", "LOW"}
      /\ cResult.label = "HIGH" <=>
           /\ ~OccursAny(hardNegatives, Lowered)
           /\ OccursAny(intentSignals, Lowered)
           /\ net >= 3
      /\ OccursAny(hardNegatives, Lowered) => cResult.label = "LOW"

\* a hard-negative phrase together with an intent phrase and a score that
\* would otherwise qualify
C1_Witness ==
  /\ OccursAny(hardNegatives, Lowered)
  /\ OccursAny(intentSignals, Lowered)
  /\ cResult.scores.netScore >= 3
  /\ cResult.label = "LOW"

GenericKeys ==
  { <<"p","r","e","m","i","u","m">>, <<"r","e","t","a","i","n","e","r">>,
    <<"s","c","o","p","e">>, <<"c","o","n","t","r","a","c","t">> }

GatedKeys ==
  { <<"r","e","t","a","i","n","e","r">>, <<"s","c","o","p","e">>,
    <<"c","o","n","t","r","a","c","t">> }

\* some high-signal phrase is matched, all matched high-signal phrases are
\* among premium / retainer / scope / contract, and neither a low-signal
\* phrase nor a hard negative is matched
OnlyGenericHigh ==
  /\ IsString(cInput)
  /\ Hits(highSignals, Lowered) # {}
  /\ \A i \in Hits(highSignals, Lowered) : highSignals[i].key \in GenericKeys
  /\ Hits(lowSignals, Lowered) = {}
  /\ ~OccursAny(hardNegatives, Lowered)

C9_OncePerRule ==
  /\ [](/\ cResult.scores.highScore = PointsOf(highSignals, Hits(highSignals, Lowered))
        /\ cResult.scores.lowScore = PointsOf(lowSignals, Hits(lowSignals, Lowered))
        /\ cResult.reasons.high = ReasonsFrom(highSignals, Lowered, "+", 1)
        /\ cResult.reasons.low = ReasonsFrom(lowSignals, Lowered, "-", 1))
  /\ [][ (/\ IsString(cInput) /\ IsString(cInput')
          /\ \/ toLowerCase(cInput') = toLowerCase(cInput)
             \/ /\ Len(cInput') > Len(cInput)
                /\ SubSeq(cInput', 1, Len(cInput)) = cInput
                /\ LET added == SubSeq(cInput', Len(cInput) + 1, Len(cInput'))
                       k == IF Head(added) = " " THEN Tail(added) ELSE added
                   IN  k \in SignalKeys /\ Occurs(k, toLowerCase(cInput)))
         => (cResult'.scores = cResult.scores /\ cResult'.reasons = cResult.reasons) ]_vars

\* "asap" occurs twice, partly in upper case, "by" occurs only inside
\* "standby", and each of the two rules has been counted once
C9_Witness ==
  /\ IsString(cInput)
  /\ cInput # Lowered
  /\ \E i, j \in 1..(Len(Lowered) - 3) :
       /\ i < j
       /\ SubSeq(Lowered, i, i + 3) = <<"a","s","a","p">>
       /\ SubSeq(Lowered, j, j + 3) = <<"a","s","a","p">>
  /\ cResult.scores.highScore = 3

\* C10: classifyLead returns a well-formed result for every argument, and
\* for an empty, null, undefined or whitespace-only message the label is
\* LOW, the three scores are 0 and both reason lists are empty.
C10_EmptyIsLow ==
  /\ cResult.label \in {"HIGH", "LOW"}
  /\ cResult.scores.highScore >= 0
  /\ cResult.scores.lowScore >= 0
  /\ cResult.scores.netScore = cResult.scores.highScore - cResult.scores.lowScore
  /\ cLocals.hasIntentSignal \in BOOLEAN
  /\ (\/ cInput = Undefined
      \/ cInput = Null
      \/ (IsString(cInput) /\ \A i \in 1..Len(cInput) : cInput[i] = " "))
     => /\ cResult.label = "LOW"
        /\ cResult.scores = [highScore |-> 0, lowScore |-> 0, netScore |-> 0]
        /\ cResult.reasons = [high |-> << >>, low |-> << >>]

\* a message of two or more blanks has been classified
C10_WitnessBlank ==
  /\ IsString(cInput)
  /\ Len(cInput) >= 2
  /\ \A i \in 1..Len(cInput) : cInput[i] = " "
  /\ cResult.label = "LOW"

\* ---------------------------------------------------------------------
\* Properties of the POST /lead handler, checked under Spec
\* ---------------------------------------------------------------------

\* a field that is missing or empty after trimming
Blank(v) == v = Undefined \/ v = Null \/ \A i \in 1..Len(v) : v[i] = " "

Handled(r) == pc[r] # "idle"

HoneypotFilled(r) == ~Blank(req[r].company_website)

NoContact(r) ==
  Blank(req[r].email) /\ Blank(req[r].phone) /\ Blank(req[r].whatsapp)

\* a submission that is neither a honeypot hit nor invalid
Accepted(r) ==
  Handled(r) /\ ~HoneypotFilled(r) /\ ~Blank(req[r].message) /\ ~NoContact(r)

\* the number of entries of a call log or of the lead log made for r
CountFor(entries, r) ==
  Cardinality({ i \in 1..Len(entries) : entries[i].req = r })

\* nothing has been done for request r
NoSideEffects(r) ==
  /\ classifyCalls[r] = 0
  /\ CountFor(mailCalls, r) = 0
  /\ CountFor(leadsFile, r) = 0
  /\ CountFor(notionCalls, r) = 0
  /\ CountFor(slackCalls, r) = 0
  /\ io[r] = [email |-> "none", disk |-> "none", notion |-> "none", slack |-> "none"]

\* C3: a request whose honeypot field company_website is non-empty after
\* trimming is answered with { ok: true, ignored: true }, whatever its other
\* fields, and no classification, e-mail, log append, Notion write or Slack
\* post is ever made for it.
C3_HoneypotIgnored ==
  \A r \in Reqs :
    (Handled(r) /\ HoneypotFilled(r)) =>
      /\ pc[r] = "done"
      /\ res[r].status = 200 /\ res[r].json /\ res[r].ok /\ res[r].ignored
      /\ NoSideEffects(r)

\* a honeypot hit without message and without contact has been answered
\* while the other request has been classified
C3_Witness ==
  \E r, q \in Reqs :
    /\ Handled(r) /\ HoneypotFilled(r)
    /\ Blank(req[r].message) /\ NoContact(r)
    /\ res[r].ignored
    /\ classifyCalls[q] = 1

\* C4: a request without honeypot hit whose message is empty or missing
\* after trimming, or whose e-mail, phone and WhatsApp are all empty or
\* missing after trimming, is answered with status 400, ok: false and an
\* error text, and nothing is classified, sent, logged, written or posted
\* for it.
C4_InvalidRejected ==
  \A r \in Reqs :
    (Handled(r) /\ ~HoneypotFilled(r) /\ (Blank(req[r].message) \/ NoContact(r))) =>
      /\ pc[r] = "done"
      /\ res[r].status = 400 /\ res[r].json /\ ~res[r].ok /\ ~res[r].ignored
      /\ res[r].error = IF Blank(req[r].message)
                          THEN "Message is required."
                          ELSE "Provide at least one contact method: Email, Phone, or WhatsApp."
      /\ NoSideEffects(r)

\* a whitespace-only message with an e-mail address has been rejected, and
\* so has a message without any contact method
C4_Witness ==
  \E r, q \in Reqs :
    /\ Handled(r) /\ req[r].message = <<" ">> /\ ~Blank(req[r].email)
    /\ res[r].status = 400
    /\ Handled(q) /\ ~Blank(req[q].message) /\ NoContact(q)
    /\ res[q].status = 400

\* the records of the lead log written for r
RecordsFor(r) == { i \in 1..Len(leadsFile) : leadsFile[i].req = r }

\* C5: for every accepted submission the append to the lead log is made
\* exactly once, after the e-mail step and before the Notion and Slack
\* steps; unless the file system call itself throws it adds exactly one
\* record, which carries the identifier, timestamp, label, scores and
\* reasons of that submission, whatever the outcomes of the e-mail, the
\* Notion write and the Slack post; no record is ever removed.
C5_OneRecordPerLead ==
  /\ \A r \in Reqs :
       /\ ~Accepted(r) => RecordsFor(r) = {}
       /\ (Accepted(r) /\ pc[r] = "await_email") =>
            (io[r].disk = "none" /\ RecordsFor(r) = {})
       /\ (Accepted(r) /\ pc[r] # "await_email") => io[r].disk \in {"ok", "throw"}
       /\ io[r].disk = "throw" => (RecordsFor(r) = {} /\ pc[r] = "aborted")
       /\ io[r].disk = "ok" =>
            /\ Cardinality(RecordsFor(r)) = 1
            /\ \A i \in RecordsFor(r) :
                 /\ leadsFile[i].lead_id = loc[r].lead_id
                 /\ leadsFile[i].created_at = loc[r].created_at
                 /\ leadsFile[i].label = loc[r].label
                 /\ leadsFile[i].scores = loc[r].scores
                 /\ leadsFile[i].reasons = loc[r].reasons
                 /\ leadsFile[i].message = loc[r].cleanMessage
                 /\ LET own == classifyLead(trim(req[r].message))
                    IN  /\ leadsFile[i].label = own.label
                        /\ leadsFile[i].scores = own.scores
                        /\ leadsFile[i].reasons = own.reasons
  /\ Len(leadsFile) = Cardinality({ r \in Reqs : io[r].disk = "ok" })

\* both requests were accepted; for one of them the e-mail, the Notion
\* write and the Slack post all failed; both records are in the log
C5_Witness ==
  \E r, q \in Reqs :
    /\ r # q
    /\ pc[r] = "done" /\ pc[q] = "done"
    /\ io[r].email = "throw" /\ io[r].notion = "throw" /\ io[r].slack = "throw"
    /\ io[q].slack = "ok"
    /\ Cardinality(RecordsFor(r)) = 1 /\ Cardinality(RecordsFor(q)) = 1

\* C6: the auto-response e-mail is attempted if and only if the label is
\* HIGH and the trimmed e-mail address contains "@" and "." and has at
\* least 6 characters, at most once per request and never for a LOW lead;
\* once the attempt (if any) has settled, emailStatus is "not_sent" exactly
\* when no attempt was made, "sent" exactly when the attempt succeeded and
\* "failed" exactly when it threw.
C6_EmailOnlyHighLikely ==
  \A r \in Reqs :
    /\ ~Accepted(r) => CountFor(mailCalls, r) = 0
    /\ Accepted(r) =>
         LET e == loc[r].cleanEmail
             plausible == /\ Occurs(<<"@">>, e)
                          /\ Occurs(<<".">>, e)
                          /\ Len(e) >= 6
             attempts == CountFor(mailCalls, r)
         IN  /\ e = (IF Blank(req[r].email) THEN << >> ELSE trim(req[r].email))
             /\ attempts = IF loc[r].label = "HIGH" /\ plausible THEN 1 ELSE 0
             /\ loc[r].label = "LOW" => attempts = 0
             /\ \A i \in 1..Len(mailCalls) : mailCalls[i].req = r => mailCalls[i].to = e
             /\ (attempts = 0) <=> (io[r].email = "none")
             /\ pc[r] = "await_email" <=> io[r].email = "pending"
             /\ pc[r] # "await_email" =>
                  /\ loc[r].emailStatus = "not_sent" <=> attempts = 0
                  /\ loc[r].emailStatus = "sent" <=> io[r].email = "ok"
                  /\ loc[r].emailStatus = "failed" <=> io[r].email = "throw"
                  /\ loc[r].emailStatus \in {"not_sent", "sent", "failed"}

\* a HIGH lead whose address has "@" and "." but only 5 characters got no
\* e-mail, and a HIGH lead with a plausible address got one that failed
C6_Witness ==
  \E r, q \in Reqs :
    /\ Accepted(r) /\ loc[r].label = "HIGH" /\ Len(loc[r].cleanEmail) = 5
    /\ pc[r] = "done" /\ loc[r].emailStatus = "not_sent"
    /\ Accepted(q) /\ loc[q].emailStatus = "failed"

\* the Slack posts made for r
PostsFor(r) == { i \in 1..Len(slackCalls) : slackCalls[i].req = r }

\* C7: a failure of the auto-response e-mail or of the Notion page creation
\* does not stop the handler: after an e-mail failure the handler goes on to
\* the log append, and unless that append throws, to Notion and Slack; after
\* a Notion failure the Slack post is made at once. The posted text carries
\* the status "failed" of the step that failed, and if the Slack post
\* succeeds the submitter receives ok: true.
C7_FailuresDoNotBlock ==
  \A r \in Reqs :
    /\ io[r].email = "throw" =>
         /\ loc[r].emailStatus = "failed"
         /\ loc[r].emailError \in EmailErrors
         /\ io[r].disk # "none"
         /\ io[r].disk = "ok" => io[r].notion # "none"
         /\ \A i \in PostsFor(r) :
              /\ slackCalls[i].autoResponse = "failed"
              /\ slackCalls[i].emailError = loc[r].emailError
    /\ io[r].notion = "throw" =>
         /\ loc[r].notionStatus = "failed"
         /\ Cardinality(PostsFor(r)) = 1
         /\ \A i \in PostsFor(r) : slackCalls[i].notion = "failed"
    /\ (io[r].email = "throw" \/ io[r].notion = "throw") =>
         /\ pc[r] \in {"await_notion", "await_slack", "done", "aborted"}
         /\ pc[r] = "aborted" => io[r].disk = "throw"
         /\ pc[r] = "await_notion" => ENABLED NotionSettles(r)
         /\ pc[r] = "await_slack" => ENABLED SlackSettles(r)
         /\ pc[r] \in {"await_slack", "done"} => Cardinality(PostsFor(r)) = 1
         /\ pc[r] = "done" => res[r].status # 0
         /\ io[r].slack = "ok" => (res[r].status = 200 /\ res[r].json /\ res[r].ok)

\* the e-mail and the Notion write both failed, the Slack post reported
\* both and succeeded, and the submitter was told ok: true
C7_Witness ==
  \E r \in Reqs :
    /\ io[r].email = "throw" /\ io[r].notion = "throw" /\ io[r].slack = "ok"
    /\ \E i \in PostsFor(r) :
         slackCalls[i].autoResponse = "failed" /\ slackCalls[i].notion = "failed"
    /\ res[r].ok

\* C8: for an accepted submission the response is status 500 with
\* ok: false if and only if the Slack post failed, and it is
\* { ok: true, label, ... } with the label of the classification if and only
\* if the Slack post succeeded; a failure of the e-mail or Notion step alone
\* never yields an error response.
C8_OnlySlackFailureSurfaces ==
  \A r \in Reqs :
    Accepted(r) =>
      /\ (res[r].json /\ res[r].status = 500 /\ ~res[r].ok) <=> io[r].slack = "throw"
      /\ (res[r].json /\ res[r].status = 200 /\ res[r].ok) <=> io[r].slack = "ok"
      /\ io[r].slack = "ok" =>
           /\ res[r].label = loc[r].label
           /\ res[r].label = classifyLead(trim(req[r].message)).label
           /\ res[r].lead_id = loc[r].lead_id
           /\ ~res[r].ignored
      /\ pc[r] = "done" <=> io[r].slack \in {"ok", "throw"}
      /\ ((io[r].email = "throw" \/ io[r].notion = "throw") /\ io[r].slack # "throw"
            /\ io[r].disk # "throw")
           => res[r].status \in {0, 200}

\* one accepted request got 500 because Slack failed although e-mail and
\* Notion succeeded, the other got ok: true although e-mail and Notion failed
C8_Witness ==
  \E r, q \in Reqs :
    /\ Accepted(r) /\ io[r].email = "ok" /\ io[r].notion = "ok"
    /\ io[r].slack = "throw" /\ res[r].status = 500
    /\ Accepted(q) /\ io[q].email = "throw" /\ io[q].notion = "throw"
    /\ io[q].slack = "ok" /\ res[q].ok /\ res[q].label = "HIGH"

\* C11: when requests are handled concurrently, interleaved at every await,
\* no request affects another: the log record, the Slack post and the
\* response of every request carry the label, scores and reasons that
\* classifyLead gives for that request's own message and the lead_id
\* generated for that request, and the log holds exactly one complete
\* record for every accepted request whose append did not throw, none lost,
\* merged or duplicated.
C11_RequestsIsolated ==
  /\ \A r \in Reqs :
       Accepted(r) =>
         LET own == classifyLead(trim(req[r].message))
         IN  /\ loc[r].cleanMessage = trim(req[r].message)
             /\ \A i \in RecordsFor(r) :
                  /\ leadsFile[i] = LeadRecord(r, loc[r])
                  /\ leadsFile[i].label = own.label
                  /\ leadsFile[i].scores = own.scores
                  /\ leadsFile[i].reasons = own.reasons
                  /\ leadsFile[i].message = trim(req[r].message)
             /\ \A i \in PostsFor(r) :
                  /\ slackCalls[i].label = own.label
                  /\ slackCalls[i].scores = own.scores
                  /\ slackCalls[i].reasons \in
                       { own.reasons.high, own.reasons.low, NoKeywordMatch }
                  /\ own.label = "HIGH" => slackCalls[i].reasons = own.reasons.high
                  /\ slackCalls[i].message = trim(req[r].message)
             /\ \A i \in 1..Len(mailCalls) :
                  mailCalls[i].req = r => mailCalls[i].to = trim(req[r].email)
             /\ \A i \in 1..Len(notionCalls) :
                  notionCalls[i].req = r =>
                    /\ notionCalls[i].lead_id = loc[r].lead_id
                    /\ notionCalls[i].label = own.label
                    /\ notionCalls[i].message = trim(req[r].message)
             /\ io[r].slack = "ok" =>
                  /\ res[r].label = own.label
                  /\ res[r].lead_id = loc[r].lead_id
                  /\ \A i \in RecordsFor(r) : res[r].lead_id = leadsFile[i].lead_id
             /\ Cardinality(RecordsFor(r)) = IF io[r].disk = "ok" THEN 1 ELSE 0
             /\ Cardinality(PostsFor(r)) <= 1
  /\ \A i \in 1..Len(leadsFile) :
       leadsFile[i].req \in Reqs /\ Accepted(leadsFile[i].req)
  /\ Len(leadsFile) = Cardinality({ r \in Reqs : io[r].disk = "ok" })

\* a LOW request was handled, logged and posted between the log append and
\* the Slack post of a HIGH request, their identifiers differ, and both
\* have been answered
C11_Witness ==
  \E r, q \in Reqs :
    /\ r # q
    /\ pc[r] = "done" /\ pc[q] = "done"
    /\ loc[r].label = "HIGH" /\ loc[q].label = "LOW"
    /\ Len(leadsFile) = 2 /\ leadsFile[1].req = r /\ leadsFile[2].req = q
    /\ Len(slackCalls) = 2 /\ slackCalls[1].req = q /\ slackCalls[2].req = r
    /\ loc[r].lead_id # loc[q].lead_id
    /\ res[r].ok /\ res[q].ok
    /\ res[r].label = "HIGH" /\ res[q].label = "LOW"

\* C12: for an accepted submission the Slack notification is posted at
\* most once, and only after the classification, the log append and, for a
\* HIGH lead only, the Notion page-creation attempt have completed; the
\* Notion write is never attempted for a LOW lead, whose notification
\* reports the Notion status "skipped"; and the e-mail and Notion statuses
\* written into the notification are the actual outcomes of those steps.
C12_PostAfterAllSteps ==
  /\ \A r \in Reqs :
       /\ Cardinality(PostsFor(r)) <= 1
       /\ PostsFor(r) # {} <=> io[r].slack # "none"
       /\ (Accepted(r) /\ loc[r].label = "LOW") =>
            (CountFor(notionCalls, r) = 0 /\ io[r].notion = "none")
       /\ CountFor(notionCalls, r) <= 1
       /\ CountFor(notionCalls, r) = 1 <=> io[r].notion \in {"pending", "ok", "throw"}
       /\ io[r].notion # "none" =>
            (Accepted(r) /\ loc[r].label = "HIGH" /\ io[r].disk = "ok")
  /\ \A i \in 1..Len(slackCalls) :
       LET r == slackCalls[i].req
       IN  /\ Accepted(r)
           /\ classifyCalls[r] = 1
           /\ slackCalls[i].label = loc[r].label
           /\ io[r].email \in {"none", "ok", "throw"}
           /\ io[r].disk = "ok"
           /\ Cardinality(RecordsFor(r)) = 1
           /\ slackCalls[i].label = "HIGH" => io[r].notion \in {"skipped", "ok", "throw"}
           /\ slackCalls[i].label = "LOW" =>
                (io[r].notion = "none" /\ slackCalls[i].notion = "skipped")
           /\ slackCalls[i].autoResponse =
                (CASE io[r].email = "none" -> "not_sent"
                   [] io[r].email = "ok" -> "sent"
                   [] io[r].email = "throw" -> "failed")
           /\ slackCalls[i].notion =
                (CASE io[r].notion \in {"none", "skipped"} -> "skipped"
                   [] io[r].notion = "ok" -> "ok"
                   [] io[r].notion = "throw" -> "failed")

\* one post reports a sent e-mail and a failed Notion write of a HIGH lead,
\* the other the skipped Notion write of a LOW lead
C12_Witness ==
  \E i, j \in 1..Len(slackCalls) :
    /\ slackCalls[i].label = "HIGH"
    /\ slackCalls[i].autoResponse = "sent"
    /\ slackCalls[i].notion = "failed"
    /\ io[slackCalls[i].req].notion = "throw"
    /\ slackCalls[j].label = "LOW"
    /\ slackCalls[j].notion = "skipped"
    /\ CountFor(notionCalls, slackCalls[j].req) = 0

\* C13: every failure of an I/O collaborator degrades gracefully: whatever
\* combination of the e-mail send, the log append, the Notion write and the
\* Slack post fails, a handler that has run to its end has sent exactly one
\* response to the submitter, and for an accepted submission it has
\* attempted the Slack notification.  Refuted by a throwing log append.
C13_GracefulDegradation ==
  \A r \in Reqs :
    pc[r] \in {"done", "aborted"} =>
      /\ res[r].status # 0
      /\ res[r].json
      /\ Accepted(r) => CountFor(slackCalls, r) = 1

\* C14: with the signal tables as coded, the intent gate never changes a
\* label.  The only high-signal key outside the intent list is premium,
\* worth 2 points, so for every message netScore >= 3 implies
\* hasIntentSignal; the label is HIGH exactly when the message has no
\* hard-negative phrase and netScore >= 3; and a HIGH result has a
\* non-empty reasons.high list.
C14_GateNeverDecides ==
  /\ \A i \in 1..Len(highSignals) :
       (\A j \in 1..Len(intentSignals) : intentSignals[j] # highSignals[i].key) =>
         (highSignals[i].key = <<"p","r","e","m","i","u","m">> /\ highSignals[i].points = 2)
  /\ cResult.scores.netScore >= 3 =>
       (cLocals.hasIntentSignal /\ OccursAny(intentSignals, Lowered))
  /\ cResult.label = "HIGH" <=>
       (~OccursAny(hardNegatives, Lowered) /\ cResult.scores.netScore >= 3)
  /\ cResult.label = "HIGH" => Len(cResult.reasons.high) > 0

\* premium is matched and the score reaches the threshold: the message then
\* also matches an intent phrase and is HIGH
C14_Witness ==
  /\ Occurs(<<"p","r","e","m","i","u","m">>, Lowered)
  /\ cResult.scores.netScore >= 3
  /\ cLocals.hasIntentSignal
  /\ cResult.label = "HIGH"
  /\ Len(cResult.reasons.high) >= 2

====
